---- MODULE Spec2Model ----
(***************************************************************************)
(* Model of the todo service: the Todo controller                          *)
(* (src/controllers/todo.ts), the List controller                          *)
(* (src/controllers/list.ts) and refresh-token issuance                    *)
(* (generateUserTokens).  Every handler is one action: the store calls it  *)
(* awaits are single atomic find-and-modify operations, except for         *)
(* generateUserTokens, whose findOne / updateOne round-trips are separate  *)
(* steps.                                                                  *)
(***************************************************************************)
EXTENDS Integers, Sequences, FiniteSets, TLC

VARIABLES
    todos,        \* the todos collection: a set of todo documents
    nextTodo,     \* number of the next ObjectId the store hands to Todo.create
    lists,        \* the lists collection: a set of list documents
    nextList,     \* number of the next ObjectId the store hands to List.create
    refreshTokens,\* the user document's refreshTokens array
    issuers,      \* per generateUserTokens call: its position and locals
    returned,     \* history: refresh tokens handed back to a caller
    req,          \* the request the last handler served
    res,          \* the response it sent
    storeCalls,   \* the store calls the last handler issued, in order
    target        \* history: the completed flags, before the last handler ran, of
                  \* the todos its request's id named (empty when it named none)

vars == <<todos, nextTodo, lists, nextList, refreshTokens, issuers,
          returned, req, res, storeCalls, target>>

todoVars == <<todos, nextTodo>>
listVars == <<lists, nextList>>
tokenVars == <<refreshTokens, issuers, returned>>
httpVars == <<req, res, storeCalls, target>>

(***************************************************************************)
(* Bounds                                                                  *)
(***************************************************************************)
MaxTodos == 2       \* Todo.create succeeds at most this many times
MaxLists == 2       \* List.create succeeds at most this many times
MaxIssuers == 2     \* concurrent generateUserTokens calls
UnitsPerDay == 2    \* clock resolution: instants per day
MaxSeconds == 2     \* seconds at which a token can be signed
MaxSharedTodos == 1 \* todos that both users send requests for

(***************************************************************************)
(* JavaScript values                                                       *)
(***************************************************************************)
Undefined == "<undefined>"
Null == "<null>"

\* a || b on strings: the falsy ones are undefined, null and ''
Falsy(v) == v \in {Undefined, Null, ""}
OrElse(v, d) == IF Falsy(v) THEN d ELSE v

(***************************************************************************)
(* Identifiers                                                             *)
(***************************************************************************)
\* Types.ObjectId.isValid on a string: 24 hex digits (or any 12 bytes).  The
\* strings of the model are hex digits or lower-case letters only.
ObjectIdIsValid(s) == (~Falsy(s)) /\ Len(s) \in {12, 24}

\* the n-th identifier the store generates (n < 10)
ObjectIdOf(n) == "00000000000000000000000" \o ToString(n)

\* a well-formed identifier that names no document
MissingID == "000000000000000000000000"

\* the malformed identifier (23 characters) of the tests
wrongTodoID == "thisiswrongtodoobjectid"

Users == {"u1", "u2"}

(***************************************************************************)
(* Dates: an instant is a number of clock units since 01-01-2024 00:00     *)
(***************************************************************************)
InvalidDate == 0 - 1

DayStart(d) == d * UnitsPerDay

\* moment(s).toDate() for the date strings a request body carries
MomentParse(s) ==
    CASE s = "2024-01-01T12:00:00" -> DayStart(0) + 1
      [] s = "2024-01-02T00:00:00" -> DayStart(1)
      [] s = "2024-01-02T12:00:00" -> DayStart(1) + 1
      [] OTHER -> InvalidDate

\* moment(s, 'MM-DD-YYYY'): the day the string names, or an invalid moment
MomentParseDay(s) ==
    CASE s = "01-01-2024" -> 0
      [] s = "01-02-2024" -> 1
      [] OTHER -> InvalidDate

MomentIsValid(m) == m # InvalidDate

InstantDay(i) == i \div UnitsPerDay

(***************************************************************************)
(* Validators (utils/validator): each returns {error, text}                *)
(***************************************************************************)
Ok == [error |-> FALSE, text |-> ""]
Fail(text) == [error |-> TRUE, text |-> text]

TodoPriorityNONE == "none"
TodoPriority == {"none", "low", "medium", "high"}

TodoValidatorId(v) ==
    IF ObjectIdIsValid(v) THEN Ok ELSE Fail("Invalid todo ID!")

TodoValidatorUserId(v) ==
    IF ObjectIdIsValid(v) THEN Ok ELSE Fail("Invalid user ID!")

TodoValidatorListId(v) ==
    IF v \in {Undefined, Null} \/ ObjectIdIsValid(v) THEN Ok ELSE Fail("Invalid list ID!")

TodoValidatorName(v) ==
    IF Falsy(v) THEN Fail("Name cannot be empty!") ELSE Ok

TodoValidatorNotes(v) == Ok

TodoValidatorURL(v) == Ok

TodoValidatorDue(v) ==
    IF (~Falsy(v)) /\ MomentIsValid(MomentParse(v)) THEN Ok ELSE Fail("Invalid due date!")

TodoValidatorPriority(v) ==
    IF v \in TodoPriority THEN Ok ELSE Fail("Invalid priority option!")

\* EveryValid with some() in place of every()
SomeValid(validations) ==
    \E f \in DOMAIN validations : validations[f].error = FALSE

\* Object.values(validations).every((v) => v.error === false)
EveryValid(validations) ==
    \A f \in DOMAIN validations : validations[f].error = FALSE

(***************************************************************************)
(* Responses                                                               *)
(***************************************************************************)
\* res.status(s).json(body)
Json(status, body) == [status |-> status, body |-> body]

\* next(createError(status, message)): the error handler answers with the
\* error's status and message
HttpError(status, message) == [status |-> status, body |-> [message |-> message]]

\* next(createError(400, {validations})): the message of a 400 defaults to
\* 'Bad Request', the validations map is carried along
HttpValidationError(validations) ==
    [status |-> 400, body |-> [message |-> "Bad Request", validations |-> validations]]

NoRequest == [op |-> "none"]
NoResponse == [status |-> 0, body |-> [message |-> ""]]

(***************************************************************************)
(* The todos collection                                                    *)
(***************************************************************************)
\* the user's _id: the session's user id in its 24-digit form
UserObjectId(u) == "aaaaaaaaaaaaaaaaaaaaaa" \o u

TodoIdOf(n) == ObjectIdOf(n)
ListIdOf(n) == "11111111111111111111111" \o ToString(n)

TodoIds == {TodoIdOf(n) : n \in 1..MaxTodos}
ListIds == {ListIdOf(n) : n \in 1..MaxLists}

\* Todo.create(doc): the store assigns _id, the schema defaults completed to false
NewTodo(n, doc) ==
    [_id |-> TodoIdOf(n), userId |-> doc.userId, listId |-> doc.listId,
     name |-> doc.name, notes |-> doc.notes, url |-> doc.url, due |-> doc.due,
     priority |-> doc.priority, completed |-> FALSE]

\* the documents whose _id is id (at most one)
TodoById(id) == {t \in todos : t._id = id}

\* the filter { _id: new Types.ObjectId(_id) } of each find-and-modify
UpdateTodoFilter(t, id) == t._id = id
\* CompleteTodoFilter guarded against completing twice
CompleteTodoFilterGuarded(t, id) == t._id = id /\ t.completed = FALSE
CompleteTodoFilter(t, id) == t._id = id
UncompleteTodoFilter(t, id) == t._id = id
DeleteTodoFilter(t, id) == t._id = id

\* Todo.findOneAndUpdate({_id}, changes, {new: true}): the collection afterwards
TodosUpdated(id, changes) ==
    {IF t._id = id
       THEN [f \in DOMAIN t |-> IF f \in DOMAIN changes THEN changes[f] ELSE t[f]]
       ELSE t : t \in todos}

(***************************************************************************)
(* TodoController.GetAllTodos                                              *)
(***************************************************************************)
AnyValue == [op |-> "any"]
Eq(v) == [op |-> "eq", value |-> v]
Range(gte, lte) == [op |-> "range", gte |-> gte, lte |-> lte]

\* InitialConditions without its completed: false
InitialConditionsAnyCompleted(now) ==
    [completed |-> AnyValue, due |-> Eq(now), listId |-> AnyValue]

\* let conditions = { completed: false, due: moment().toDate() }
InitialConditions(now) ==
    [completed |-> Eq(FALSE), due |-> Eq(now), listId |-> AnyValue]

\* update(conditions, { listId: { $set: new Types.ObjectId(options.listId) } })
SetListId(conditions, listId) == [conditions EXCEPT !.listId = Eq(listId)]

\* UnsetDue that leaves the due condition in place
UnsetDueKept(conditions) == conditions

\* update(conditions, { $unset: ['due'] })
UnsetDue(conditions) == [conditions EXCEPT !.due = AnyValue]

\* due = moment(options.due, 'MM-DD-YYYY').set({h: 0, m: 0, s: 0});
\* { $gte: due.toDate(), $lte: due.add(1, 'd').toDate() }
SetDueRange(conditions, day) ==
    [conditions EXCEPT !.due = Range(DayStart(day), DayStart(day + 1))]

\* one field of a filter against one value of a document
Satisfies(v, c) ==
    CASE c.op = "any" -> TRUE
      [] c.op = "eq" -> v = c.value
      [] c.op = "range" -> c.gte <= v /\ v <= c.lte

\* the filter of Todo.find / Todo.countDocuments
Matches(t, conditions) ==
    /\ Satisfies(t.completed, conditions.completed)
    /\ Satisfies(t.due, conditions.due)
    /\ Satisfies(t.listId, conditions.listId)

\* const options = { listId: req.query.listId || null, due: req.query.due || 'all' }
GetAllTodosOptions(query) ==
    [listId |-> OrElse(query.listId, Null), due |-> OrElse(query.due, "all")]

\* ListIdOption that ignores a malformed listId instead of throwing
ListIdOptionLenient(conditions, options) ==
    IF options.listId # Null /\ ObjectIdIsValid(options.listId)
      THEN [ok |-> TRUE, conditions |-> SetListId(conditions, options.listId)]
      ELSE [ok |-> TRUE, conditions |-> conditions]

\* the List ID option: the filter, or the 400 it throws
ListIdOption(conditions, options) ==
    IF options.listId # Null
      THEN IF ObjectIdIsValid(options.listId)
             THEN [ok |-> TRUE, conditions |-> SetListId(conditions, options.listId)]
             ELSE [ok |-> FALSE, message |-> "Invalid list ID!"]
      ELSE [ok |-> TRUE, conditions |-> conditions]

\* the Due option: the filter, or the 400 it throws
DueOption(conditions, options) ==
    IF options.due = "all"
      THEN [ok |-> TRUE, conditions |-> UnsetDue(conditions)]
      ELSE IF MomentIsValid(MomentParseDay(options.due))
             THEN [ok |-> TRUE,
                   conditions |-> SetDueRange(conditions, MomentParseDay(options.due))]
             ELSE [ok |-> FALSE, message |-> "Invalid due option!"]

GetAllTodos(user, now, query) ==
    LET options == GetAllTodosOptions(query)
        byList == ListIdOption(InitialConditions(now), options)
        byDue == DueOption(byList.conditions, options)
        found == {t \in todos : Matches(t, byDue.conditions)}
    IN  /\ req' = [op |-> "GetAllTodos", user |-> user, now |-> now, query |-> query]
        /\ target' = {}
        /\ IF ~byList.ok
             THEN /\ res' = HttpError(400, byList.message)
                  /\ storeCalls' = <<>>
             ELSE IF ~byDue.ok
                    THEN /\ res' = HttpError(400, byDue.message)
                         /\ storeCalls' = <<>>
                    ELSE /\ res' = Json(200, [total |-> Cardinality(found), todos |-> found])
                         /\ storeCalls' = <<"Todo.find", "Todo.countDocuments">>
        /\ UNCHANGED <<todoVars, listVars, tokenVars>>

(***************************************************************************)
(* TodoController.AddTodo                                                  *)
(***************************************************************************)
AddTodoFormData(user, body) ==
    [userId |-> UserObjectId(user),
     listId |-> OrElse(body.listId, Null),
     name |-> body.name,
     notes |-> OrElse(body.notes, Null),
     url |-> OrElse(body.url, Null),
     due |-> body.due,
     priority |-> OrElse(body.priority, TodoPriorityNONE)]

AddTodoValidations(formData) ==
    [userId |-> TodoValidatorUserId(formData.userId),
     listId |-> TodoValidatorListId(formData.listId),
     name |-> TodoValidatorName(formData.name),
     notes |-> TodoValidatorNotes(formData.notes),
     url |-> TodoValidatorURL(formData.url),
     due |-> TodoValidatorDue(formData.due),
     priority |-> TodoValidatorPriority(formData.priority)]

\* AddTodoDocument with name taken from the notes
AddTodoDocumentSwapped(formData) ==
    [userId |-> formData.userId,
     listId |-> formData.listId,
     name |-> formData.notes,
     notes |-> formData.name,
     url |-> formData.url,
     due |-> MomentParse(formData.due),
     priority |-> formData.priority]

\* the document handed to Todo.create
AddTodoDocument(formData) ==
    [userId |-> formData.userId,
     listId |-> formData.listId,
     name |-> formData.name,
     notes |-> formData.notes,
     url |-> formData.url,
     due |-> MomentParse(formData.due),
     priority |-> formData.priority]

AddTodo(user, body) ==
    LET formData == AddTodoFormData(user, body)
        validations == AddTodoValidations(formData)
        createdTodo == NewTodo(nextTodo, AddTodoDocument(formData))
    IN  /\ req' = [op |-> "AddTodo", user |-> user, body |-> body]
        /\ target' = {}
        /\ IF ~EveryValid(validations)
             THEN /\ res' = HttpValidationError(validations)
                  /\ storeCalls' = <<>>
                  /\ UNCHANGED todoVars
             ELSE /\ nextTodo <= MaxTodos
                  /\ todos' = todos \cup {createdTodo}
                  /\ nextTodo' = nextTodo + 1
                  /\ res' = Json(201, [message |-> "Added \"" \o createdTodo.name \o "\"",
                                       todo |-> createdTodo])
                  /\ storeCalls' = <<"Todo.create">>
        /\ UNCHANGED <<listVars, tokenVars>>

(***************************************************************************)
(* TodoController.UpdateTodo                                               *)
(***************************************************************************)
UpdateTodoFormData(user, id, body) ==
    [_id |-> id,
     userId |-> UserObjectId(user),
     listId |-> body.listId,
     name |-> body.name,
     notes |-> OrElse(body.notes, Null),
     url |-> OrElse(body.url, Null),
     due |-> body.due,
     priority |-> OrElse(body.priority, TodoPriorityNONE)]

UpdateTodoValidations(formData) ==
    [_id |-> TodoValidatorId(formData._id),
     userId |-> TodoValidatorUserId(formData.userId),
     listId |-> TodoValidatorListId(formData.listId),
     name |-> TodoValidatorName(formData.name),
     notes |-> TodoValidatorNotes(formData.notes),
     url |-> TodoValidatorURL(formData.url),
     due |-> TodoValidatorDue(formData.due),
     priority |-> TodoValidatorPriority(formData.priority)]

\* UpdateTodoChanges without the userId field: the owner is left as it was
UpdateTodoChangesKeepOwner(formData, listId) ==
    [listId |-> listId,
     name |-> formData.name,
     notes |-> formData.notes,
     url |-> formData.url,
     due |-> MomentParse(formData.due),
     priority |-> formData.priority]

\* the update document of findOneAndUpdate; listId is what the store keeps
\* for formData.listId
UpdateTodoChanges(formData, listId) ==
    [listId |-> listId,
     userId |-> formData.userId,
     name |-> formData.name,
     notes |-> formData.notes,
     url |-> formData.url,
     due |-> MomentParse(formData.due),
     priority |-> formData.priority]

\* an undefined listId in the update document is dropped or written as null,
\* depending on the mapper's version
StoredListIds(old, listId) ==
    IF listId = Undefined THEN {old, Null} ELSE {listId}

\* createError(404, ...) of the handlers that find no todo
TodoNotFoundMessage(action, id) == "Todo with ID " \o id \o " is not found!"

UpdateTodo(user, id, body) ==
    LET formData == UpdateTodoFormData(user, id, body)
        validations == UpdateTodoValidations(formData)
    IN  /\ req' = [op |-> "UpdateTodo", user |-> user, id |-> id, body |-> body]
        /\ target' = {t.completed : t \in TodoById(id)}
        /\ IF ~EveryValid(validations)
             THEN /\ res' = HttpValidationError(validations)
                  /\ storeCalls' = <<>>
                  /\ UNCHANGED todoVars
             ELSE /\ storeCalls' = <<"Todo.findOneAndUpdate">>
                  /\ IF {t \in todos : UpdateTodoFilter(t, formData._id)} = {}
                       THEN /\ res' = HttpError(404, TodoNotFoundMessage("update", formData._id))
                            /\ UNCHANGED todoVars
                       ELSE \E old \in {t \in todos : UpdateTodoFilter(t, formData._id)} :
                            \E listId \in StoredListIds(old.listId, formData.listId) :
                              /\ todos' = TodosUpdated(formData._id,
                                                       UpdateTodoChanges(formData, listId))
                              /\ \E updatedTodo \in {t \in todos' : t._id = formData._id} :
                                   res' = Json(200,
                                       [message |-> "Updated \"" \o updatedTodo.name \o "\"",
                                        todo |-> updatedTodo])
                              /\ UNCHANGED nextTodo
        /\ UNCHANGED <<listVars, tokenVars>>

(***************************************************************************)
(* TodoController.CompleteTodo / UncompleteTodo / DeleteTodo               *)
(***************************************************************************)
\* the handlers that take only the todo's id: validate it, find-and-modify,
\* 404 when nothing matched
CompleteTodo(user, id) ==
    LET validation == TodoValidatorId(id)
    IN  /\ req' = [op |-> "CompleteTodo", user |-> user, id |-> id]
        /\ target' = {t.completed : t \in TodoById(id)}
        /\ IF validation.error
             THEN /\ res' = HttpError(400, validation.text)
                  /\ storeCalls' = <<>>
                  /\ UNCHANGED todoVars
             ELSE /\ storeCalls' = <<"Todo.findOneAndUpdate">>
                  /\ IF {t \in todos : CompleteTodoFilter(t, id)} = {}
                       THEN /\ res' = HttpError(404, TodoNotFoundMessage("complete", id))
                            /\ UNCHANGED todoVars
                       ELSE /\ todos' = TodosUpdated(id, [completed |-> TRUE])
                            /\ \E completedTodo \in {t \in todos' : t._id = id} :
                                 res' = Json(200,
                                     [message |-> "Completed \"" \o completedTodo.name \o "\"",
                                      todo |-> completedTodo])
                            /\ UNCHANGED nextTodo
        /\ UNCHANGED <<listVars, tokenVars>>

UncompleteTodo(user, id) ==
    LET validation == TodoValidatorId(id)
    IN  /\ req' = [op |-> "UncompleteTodo", user |-> user, id |-> id]
        /\ target' = {t.completed : t \in TodoById(id)}
        /\ IF validation.error
             THEN /\ res' = HttpError(400, validation.text)
                  /\ storeCalls' = <<>>
                  /\ UNCHANGED todoVars
             ELSE /\ storeCalls' = <<"Todo.findOneAndUpdate">>
                  /\ IF {t \in todos : UncompleteTodoFilter(t, id)} = {}
                       THEN /\ res' = HttpError(404, TodoNotFoundMessage("uncomplete", id))
                            /\ UNCHANGED todoVars
                       ELSE /\ todos' = TodosUpdated(id, [completed |-> FALSE])
                            /\ \E uncompletedTodo \in {t \in todos' : t._id = id} :
                                 res' = Json(200,
                                     [message |-> "Uncompleted \"" \o uncompletedTodo.name \o "\"",
                                      todo |-> uncompletedTodo])
                            /\ UNCHANGED nextTodo
        /\ UNCHANGED <<listVars, tokenVars>>

DeleteTodo(user, id) ==
    LET validation == TodoValidatorId(id)
    IN  /\ req' = [op |-> "DeleteTodo", user |-> user, id |-> id]
        /\ target' = {t.completed : t \in TodoById(id)}
        /\ IF validation.error
             THEN /\ res' = HttpError(400, validation.text)
                  /\ storeCalls' = <<>>
                  /\ UNCHANGED todoVars
             ELSE /\ storeCalls' = <<"Todo.findOneAndDelete">>
                  /\ IF {t \in todos : DeleteTodoFilter(t, id)} = {}
                       THEN /\ res' = HttpError(404, TodoNotFoundMessage("delete", id))
                            /\ UNCHANGED todoVars
                       ELSE /\ todos' = todos \ {t \in todos : DeleteTodoFilter(t, id)}
                            /\ \E deletedTodo \in {t \in todos : DeleteTodoFilter(t, id)} :
                                 res' = Json(200,
                                     [message |-> "Deleted \"" \o deletedTodo.name \o "\"",
                                      todo |-> deletedTodo])
                            /\ UNCHANGED nextTodo
        /\ UNCHANGED <<listVars, tokenVars>>

\* UpdateTodoPriorityFilter with an empty filter document: matches any todo
UpdateTodoPriorityFilterAny(t, id) == TRUE

\* the filter { _id: new Types.ObjectId(_id) } of UpdateTodoPriority
UpdateTodoPriorityFilter(t, id) == t._id = id

UpdateTodoPriority(user, id, priority) ==
    LET validation == TodoValidatorId(id)
    IN  /\ req' = [op |-> "UpdateTodoPriority", user |-> user, id |-> id,
                   priority |-> priority]
        /\ target' = {t.completed : t \in TodoById(id)}
        /\ IF validation.error
             THEN /\ res' = HttpError(400, validation.text)
                  /\ storeCalls' = <<>>
                  /\ UNCHANGED todoVars
             ELSE IF Falsy(priority)
             THEN /\ res' = HttpError(400, "Priority cannot be empty!")
                  /\ storeCalls' = <<>>
                  /\ UNCHANGED todoVars
             ELSE IF priority \notin TodoPriority
             THEN /\ res' = HttpError(400, "Invalid priority option!")
                  /\ storeCalls' = <<>>
                  /\ UNCHANGED todoVars
             ELSE /\ storeCalls' = <<"Todo.findOneAndUpdate">>
                  /\ IF {t \in todos : UpdateTodoPriorityFilter(t, id)} = {}
                       THEN /\ res' = HttpError(404, TodoNotFoundMessage("update", id))
                            /\ UNCHANGED todoVars
                       ELSE \E old \in {t \in todos : UpdateTodoPriorityFilter(t, id)} :
                              /\ todos' = TodosUpdated(old._id, [priority |-> priority])
                              /\ \E foundTodo \in {t \in todos' : t._id = old._id} :
                                   res' = Json(200,
                                       [message |-> "Updated \"" \o foundTodo.name
                                                        \o "\" priority!",
                                        todo |-> foundTodo])
                              /\ UNCHANGED nextTodo
        /\ UNCHANGED <<listVars, tokenVars>>

\* new Types.ObjectId() without an argument: a generated id, naming no list
GeneratedObjectId == "ffffffffffffffffffffffff"

\* listId !== null ? new Types.ObjectId(listId) : null
UpdateTodoListChanges(listId) ==
    [listId |-> IF listId # Null
                  THEN (IF listId = Undefined THEN GeneratedObjectId ELSE listId)
                  ELSE Null]

\* the filter { _id: new Types.ObjectId(_id) } of UpdateTodoList
UpdateTodoListFilter(t, id) == t._id = id

UpdateTodoList(user, id, listId) ==
    LET validation == TodoValidatorId(id)
        listIdValidation == TodoValidatorListId(listId)
    IN  /\ req' = [op |-> "UpdateTodoList", user |-> user, id |-> id, listId |-> listId]
        /\ target' = {t.completed : t \in TodoById(id)}
        /\ IF validation.error
             THEN /\ res' = HttpError(400, validation.text)
                  /\ storeCalls' = <<>>
                  /\ UNCHANGED todoVars
             ELSE IF listIdValidation.error
             THEN /\ res' = HttpError(400, listIdValidation.text)
                  /\ storeCalls' = <<>>
                  /\ UNCHANGED todoVars
             ELSE /\ storeCalls' = <<"Todo.findOneAndUpdate">>
                  /\ IF {t \in todos : UpdateTodoListFilter(t, id)} = {}
                       THEN /\ res' = HttpError(404, TodoNotFoundMessage("update", id))
                            /\ UNCHANGED todoVars
                       ELSE /\ todos' = TodosUpdated(id, UpdateTodoListChanges(listId))
                            /\ \E foundTodo \in {t \in todos' : t._id = id} :
                                 res' = Json(200,
                                     [message |-> "Updated \"" \o foundTodo.name \o "\" list!",
                                      todo |-> foundTodo])
                            /\ UNCHANGED nextTodo
        /\ UNCHANGED <<listVars, tokenVars>>

(***************************************************************************)
(* ListController                                                          *)
(***************************************************************************)
ListValidatorId(v) ==
    IF ObjectIdIsValid(v) THEN Ok ELSE Fail("Invalid list ID!")

ListValidatorUserId(v) ==
    IF ObjectIdIsValid(v) THEN Ok ELSE Fail("Invalid user ID!")

ListValidatorName(v) ==
    IF Falsy(v) THEN Fail("Name cannot be empty!") ELSE Ok

ListValidatorColor(v) ==
    IF Falsy(v) THEN Fail("Color cannot be empty!") ELSE Ok

ListNotFoundMessage(id) == "List with ID " \o id \o " is not found!"

\* List.create(doc): the store assigns _id
NewList(n, doc) ==
    [_id |-> ListIdOf(n), userId |-> doc.userId, name |-> doc.name, color |-> doc.color]

AddListValidations(formData) ==
    [userId |-> ListValidatorUserId(formData.userId),
     name |-> ListValidatorName(formData.name),
     color |-> ListValidatorColor(formData.color)]

AddList(user, body) ==
    LET formData == [userId |-> UserObjectId(user), name |-> body.name, color |-> body.color]
        validations == AddListValidations(formData)
        createdList == NewList(nextList, formData)
    IN  /\ req' = [op |-> "AddList", user |-> user, body |-> body]
        /\ target' = {}
        /\ IF ~EveryValid(validations)
             THEN /\ res' = [status |-> 400,
                             body |-> [message |-> "Plese correct list validations!",
                                       validations |-> validations]]
                  /\ storeCalls' = <<>>
                  /\ UNCHANGED listVars
             ELSE /\ nextList <= MaxLists
                  /\ lists' = lists \cup {createdList}
                  /\ nextList' = nextList + 1
                  /\ res' = Json(201, [list |-> createdList])
                  /\ storeCalls' = <<"List.create">>
        /\ UNCHANGED <<todoVars, tokenVars>>

\* const conditions = { userId }; options = { limit: 100, skip: 0, sort: { due: -1 } }
\* (both bounds of the model are far below the limit)
GetAllLists(user) ==
    LET found == {l \in lists : l.userId = UserObjectId(user)}
    IN  /\ req' = [op |-> "GetAllLists", user |-> user]
        /\ target' = {}
        /\ res' = Json(200, [total |-> Cardinality(found), lists |-> found])
        /\ storeCalls' = <<"List.countDocuments", "List.find">>
        /\ UNCHANGED <<todoVars, listVars, tokenVars>>

\* ListFilter without its userId clause
ListFilterIdOnly(l, id, userId) == l._id = id

\* the filter { $and: [{ _id }, { userId }] } of UpdateList and DeleteList
ListFilter(l, id, userId) == l._id = id /\ l.userId = userId

UpdateListValidations(formData) ==
    [_id |-> ListValidatorId(formData._id),
     userId |-> ListValidatorUserId(formData.userId),
     name |-> ListValidatorName(formData.name),
     color |-> ListValidatorColor(formData.color)]

UpdateList(user, id, body) ==
    LET formData == [_id |-> id, userId |-> UserObjectId(user),
                     name |-> body.name, color |-> body.color]
        validations == UpdateListValidations(formData)
        matched == {l \in lists : ListFilter(l, formData._id, formData.userId)}
    IN  /\ req' = [op |-> "UpdateList", user |-> user, id |-> id, body |-> body]
        /\ target' = {}
        /\ IF ~EveryValid(validations)
             THEN /\ res' = [status |-> 400,
                             body |-> [message |-> "Please correct list validations!",
                                       validations |-> validations]]
                  /\ storeCalls' = <<>>
                  /\ UNCHANGED listVars
             ELSE /\ storeCalls' = <<"List.findOneAndUpdate">>
                  /\ IF matched = {}
                       THEN /\ res' = HttpError(404, ListNotFoundMessage(formData._id))
                            /\ UNCHANGED listVars
                       ELSE \E old \in matched :
                            LET updatedList == [old EXCEPT !.name = formData.name,
                                                           !.color = formData.color]
                            IN  /\ lists' = (lists \ {old}) \cup {updatedList}
                                /\ res' = Json(200, [list |-> updatedList])
                                /\ UNCHANGED nextList
        /\ UNCHANGED <<todoVars, tokenVars>>

DeleteList(user, id) ==
    LET validation == ListValidatorId(id)
        matched == {l \in lists : ListFilter(l, id, UserObjectId(user))}
    IN  /\ req' = [op |-> "DeleteList", user |-> user, id |-> id]
        /\ target' = {}
        /\ IF validation.error
             THEN /\ res' = HttpError(400, validation.text)
                  /\ storeCalls' = <<>>
                  /\ UNCHANGED listVars
             ELSE /\ storeCalls' = <<"List.findOneAndDelete">>
                  /\ IF matched = {}
                       THEN /\ res' = HttpError(404, ListNotFoundMessage(id))
                            /\ UNCHANGED listVars
                       ELSE \E deletedList \in matched :
                            /\ lists' = lists \ {deletedList}
                            /\ res' = Json(200, [list |-> deletedList])
                            /\ UNCHANGED nextList
        /\ UNCHANGED <<todoVars, tokenVars>>

(***************************************************************************)
(* generateUserTokens                                                      *)
(***************************************************************************)
Issuers == 1..MaxIssuers

\* the refresh token signJWT({ username }, ...) returns: its payload is the
\* username and the second it was issued at, so two calls within one second
\* sign the same token
RefreshTokenOf(iat) == "refresh-" \o ToString(iat)

IdleIssuer == [pc |-> "idle", refreshToken |-> "", newRefreshTokens |-> <<>>]

\* lines 14-15: both tokens are signed
SignTokens(i, iat) ==
    /\ issuers[i].pc = "idle"
    /\ issuers' = [issuers EXCEPT ![i] = [@ EXCEPT !.pc = "signed",
                                                   !.refreshToken = RefreshTokenOf(iat)]]
    /\ UNCHANGED <<refreshTokens, returned, todoVars, listVars, httpVars>>

\* foundUser.refreshTokens.concat(refreshToken)
ConcatToken(found, refreshToken) == Append(found, refreshToken)

\* lines 16-17: await User.findOne(...), then the new array is built from what
\* was read
FindUser(i) ==
    /\ issuers[i].pc = "signed"
    /\ issuers' = [issuers EXCEPT ![i] =
           [@ EXCEPT !.pc = "found",
                     !.newRefreshTokens = ConcatToken(refreshTokens, issuers[i].refreshToken)]]
    /\ UNCHANGED <<refreshTokens, returned, todoVars, listVars, httpVars>>

\* line 19: await User.updateOne(..., { refreshTokens: newRefreshTokens })
UpdateUser(i) ==
    /\ issuers[i].pc = "found"
    /\ refreshTokens' = issuers[i].newRefreshTokens
    /\ issuers' = [issuers EXCEPT ![i] = [@ EXCEPT !.pc = "updated"]]
    /\ UNCHANGED <<returned, todoVars, listVars, httpVars>>

\* lines 21-24: the promise resolves with the tokens
ResolveTokens(i) ==
    /\ issuers[i].pc = "updated"
    /\ returned' = returned \cup {issuers[i].refreshToken}
    /\ issuers' = [issuers EXCEPT ![i] = [@ EXCEPT !.pc = "resolved"]]
    /\ UNCHANGED <<refreshTokens, todoVars, listVars, httpVars>>

(***************************************************************************)
(* Requests                                                                *)
(***************************************************************************)
\* ids a request can name: those the store hands out, a well-formed one that
\* names nothing, and the malformed one of the tests
RequestTodoIds == {MissingID} \cup TodoIds \cup {wrongTodoID}
RequestListIds == ListIds \cup {wrongTodoID}

\* request bodies of AddTodo / UpdateTodo
TodoBodies ==
    [name : {"Install MySQL", "Create Client", Undefined},
     due : {"2024-01-01T12:00:00", "someday"},
     priority : {Undefined},
     listId : {Undefined},
     notes : {Undefined},
     url : {Undefined}]

\* request bodies that differ in what GetAllTodos filters on
DatedTodoBodies ==
    [name : {"Install MySQL"},
     due : {"2024-01-01T12:00:00", "2024-01-02T00:00:00", "2024-01-02T12:00:00"},
     priority : {Undefined},
     listId : {Undefined, ListIdOf(1)},
     notes : {Undefined},
     url : {Undefined}]

\* query strings of GetAllTodos
TodoQueries ==
    [listId : {Undefined, "", ListIdOf(1), wrongTodoID},
     due : {Undefined, "", "all", "01-01-2024", "01-02-2024", "tomorrow"}]

\* the instants at which GetAllTodos reads the clock
Clock == {DayStart(0) + 1, DayStart(1) + 1}

ListBodies ==
    [name : {"Work", "Home", Undefined}, color : {"red", Undefined}]

(***************************************************************************)
(* Specifications                                                          *)
(***************************************************************************)
Init ==
    /\ todos = {}
    /\ nextTodo = 1
    /\ lists = {}
    /\ nextList = 1
    /\ refreshTokens = <<"refresh-0">>
    /\ issuers = [i \in Issuers |-> IdleIssuer]
    /\ returned = {}
    /\ req = NoRequest
    /\ res = NoResponse
    /\ storeCalls = <<>>
    /\ target = {}

\* the todo endpoints that write
Next ==
    \/ \E u \in Users, body \in TodoBodies : AddTodo(u, body)
    \/ \E u \in Users, id \in RequestTodoIds : CompleteTodo(u, id)
    \/ \E u \in Users, id \in RequestTodoIds : UncompleteTodo(u, id)
    \/ \E u \in Users, id \in RequestTodoIds : DeleteTodo(u, id)
    \/ \E u \in Users, id \in RequestTodoIds, body \in TodoBodies : UpdateTodo(u, id, body)

Spec == Init /\ [][Next]_vars

\* GetAllTodos over the stores that AddTodo and CompleteTodo build
NextQuery ==
    \/ \E body \in DatedTodoBodies : AddTodo("u1", body)
    \/ \E id \in TodoIds : CompleteTodo("u1", id)
    \/ \E now \in Clock, query \in TodoQueries : GetAllTodos("u1", now, query)

SpecQuery == Init /\ [][NextQuery]_vars

\* the list endpoints
NextList ==
    \/ \E u \in Users, body \in ListBodies : AddList(u, body)
    \/ \E u \in Users : GetAllLists(u)
    \/ \E u \in Users, id \in RequestListIds, body \in ListBodies : UpdateList(u, id, body)
    \/ \E u \in Users, id \in RequestListIds : DeleteList(u, id)

SpecList == Init /\ [][NextList]_vars

\* concurrent sign-ins of one user
NextTokens ==
    \E i \in Issuers :
        \/ \E iat \in 1..MaxSeconds : SignTokens(i, iat)
        \/ FindUser(i)
        \/ UpdateUser(i)
        \/ ResolveTokens(i)

SpecTokens == Init /\ [][NextTokens]_vars

\* GetAllTodos by either user over a store holding todos of both
NextScope ==
    \/ \E u \in Users, body \in DatedTodoBodies : AddTodo(u, body)
    \/ \E u \in Users, now \in Clock, query \in TodoQueries : GetAllTodos(u, now, query)

SpecScope == Init /\ [][NextScope]_vars

\* one user's requests by id, on ids that name a todo, named one, or never did
DeletedTodoIds == {MissingID} \cup TodoIds

DeletedTodoBodies ==
    [name : {"Install MySQL", Undefined},
     due : {"2024-01-01T12:00:00"},
     priority : {Undefined},
     listId : {Undefined},
     notes : {Undefined},
     url : {Undefined}]

PriorityInputs == {Undefined, "high", "urgent"}

ListIdInputs == {Null, ListIdOf(1), wrongTodoID}

NextDeleted ==
    \/ \E body \in DeletedTodoBodies : AddTodo("u1", body)
    \/ \E id \in DeletedTodoIds : DeleteTodo("u1", id)
    \/ \E id \in DeletedTodoIds, priority \in PriorityInputs :
         UpdateTodoPriority("u1", id, priority)
    \/ \E id \in DeletedTodoIds, listId \in ListIdInputs : UpdateTodoList("u1", id, listId)
    \/ \E id \in DeletedTodoIds : CompleteTodo("u1", id)
    \/ \E id \in DeletedTodoIds : UncompleteTodo("u1", id)
    \/ \E id \in DeletedTodoIds, body \in DeletedTodoBodies : UpdateTodo("u1", id, body)

SpecDeleted == Init /\ [][NextDeleted]_vars

\* u1 creates todos; u1 and u2 both send every request by id for them
NextOwner ==
    \/ /\ nextTodo <= MaxSharedTodos
       /\ \E body \in DeletedTodoBodies : AddTodo("u1", body)
    \/ \E u \in Users, id \in TodoIds : CompleteTodo(u, id)
    \/ \E u \in Users, id \in TodoIds : UncompleteTodo(u, id)
    \/ \E u \in Users, id \in TodoIds, priority \in PriorityInputs :
         UpdateTodoPriority(u, id, priority)
    \/ \E u \in Users, id \in TodoIds, listId \in ListIdInputs : UpdateTodoList(u, id, listId)
    \/ \E u \in Users, id \in TodoIds : DeleteTodo(u, id)
    \/ \E u \in Users, id \in TodoIds, body \in DeletedTodoBodies : UpdateTodo(u, id, body)

SpecOwner == Init /\ [][NextOwner]_vars

(***************************************************************************)
(* Properties                                                              *)
(***************************************************************************)
\* the <action> of the not-found template for each handler
ActionOf(op) ==
    CASE op = "UpdateTodo" -> "update"
      [] op = "CompleteTodo" -> "complete"
      [] op = "UncompleteTodo" -> "uncomplete"
      [] op = "DeleteTodo" -> "delete"

IdHandlers == {"UpdateTodo", "CompleteTodo", "UncompleteTodo", "DeleteTodo"}

\* C1: UpdateTodo, CompleteTodo, UncompleteTodo and DeleteTodo on an id that
\* names no todo respond 404 with the message
\* 'Cannot <action>, no todo whose ID is <id> found!'.
C1_NotFoundTemplate ==
    (req.op \in IdHandlers /\ target = {}) =>
        /\ res.status = 404
        /\ res.body.message =
               "Cannot " \o ActionOf(req.op) \o ", no todo whose ID is " \o req.id \o " found!"

\* a GetAllTodos request without query parameters
NoQueryParameters ==
    req.op = "GetAllTodos" /\ req.query.listId = Undefined /\ req.query.due = Undefined

\* C2 as stated: GetAllTodos without query parameters returns only todos that
\* are not completed and are due on the day of the request.
C2_OnlyDueToday ==
    NoQueryParameters =>
        \A t \in res.body.todos :
            t.completed = FALSE /\ InstantDay(t.due) = InstantDay(req.now)

\* C2 amended: GetAllTodos without query parameters responds 200 with exactly
\* the todos that are not completed, whatever their due date.
C2_AllUncompleted ==
    NoQueryParameters =>
        /\ res.status = 200
        /\ res.body.todos = {t \in todos : t.completed = FALSE}
        /\ res.body.total = Cardinality(res.body.todos)

\* C2 witness: a request without parameters returned a todo due on another
\* day and left a completed one out.
C2_Witness ==
    /\ NoQueryParameters
    /\ \E t \in res.body.todos : InstantDay(t.due) # InstantDay(req.now)
    /\ \E t \in todos : t.completed /\ t \notin res.body.todos

\* the listId filter a request asks for
ListIdMatches(t, query) ==
    Falsy(query.listId) \/ t.listId = query.listId

\* a GetAllTodos request answered 200 whose due names a day
DayQuery ==
    /\ req.op = "GetAllTodos"
    /\ res.status = 200
    /\ ~Falsy(req.query.due)
    /\ req.query.due # "all"

\* C3: GetAllTodos with a due that parses as MM-DD-YYYY returns exactly the
\* not completed, listId-matching todos due in the half-open range
\* [due 00:00:00, due + 1 day 00:00:00).
C3_HalfOpenDayRange ==
    DayQuery =>
        res.body.todos =
            {t \in todos : /\ t.completed = FALSE
                           /\ ListIdMatches(t, req.query)
                           /\ DayStart(MomentParseDay(req.query.due)) <= t.due
                           /\ t.due < DayStart(MomentParseDay(req.query.due) + 1)}

\* two todos that differ only in their due date (and their id)
SameButDue(t1, t2) ==
    \A f \in DOMAIN t1 \ {"_id", "due"} : t1[f] = t2[f]

\* C4: GetAllTodos with due=all applies no date filter: two todos that differ
\* only in due date are both returned or both left out.
C4_DueAllIgnoresDue ==
    (req.op = "GetAllTodos" /\ req.query.due = "all" /\ res.status = 200) =>
        \A t1, t2 \in todos :
            SameButDue(t1, t2) => (t1 \in res.body.todos <=> t2 \in res.body.todos)

\* C4 witness: due=all returned two todos due on different days.
C4_Witness ==
    /\ req.op = "GetAllTodos" /\ req.query.due = "all" /\ res.status = 200
    /\ \E t1, t2 \in res.body.todos :
           SameButDue(t1, t2) /\ InstantDay(t1.due) # InstantDay(t2.due)

\* C5 as stated: GetAllTodos answers 400 without a store query when listId is
\* present and no valid identifier, or due is present and neither 'all' nor
\* MM-DD-YYYY; otherwise it answers 200.
C5_BadParameters400 ==
    req.op = "GetAllTodos" =>
        IF \/ (req.query.listId # Undefined /\ ~ObjectIdIsValid(req.query.listId))
           \/ /\ req.query.due # Undefined
              /\ req.query.due # "all"
              /\ ~MomentIsValid(MomentParseDay(req.query.due))
          THEN res.status = 400 /\ storeCalls = <<>>
          ELSE res.status = 200

\* C5 amended: the same, for parameters that are present and not empty; an
\* empty listId or due counts as absent.
C5_NonEmptyBadParameters400 ==
    req.op = "GetAllTodos" =>
        IF \/ (~Falsy(req.query.listId) /\ ~ObjectIdIsValid(req.query.listId))
           \/ /\ ~Falsy(req.query.due)
              /\ req.query.due # "all"
              /\ ~MomentIsValid(MomentParseDay(req.query.due))
          THEN res.status = 400 /\ storeCalls = <<>>
          ELSE res.status = 200 /\ storeCalls # <<>>

\* C5 witness: a malformed listId was refused although the store holds todos,
\* and no store call was issued.
C5_Witness ==
    /\ req.op = "GetAllTodos"
    /\ req.query.listId = wrongTodoID
    /\ res.status = 400
    /\ storeCalls = <<>>
    /\ todos # {}

\* C6: CompleteTodo on an existing todo, completed already or not, responds
\* 200 with completed=true and leaves it completed in the store; UncompleteTodo
\* likewise with completed=false.  After each such call the flag is the one
\* the call set.
C6_ToggleIdempotent ==
    /\ (req.op = "CompleteTodo" /\ target # {}) =>
           /\ res.status = 200
           /\ res.body.todo.completed = TRUE
           /\ TodoById(req.id) # {}
           /\ \A t \in TodoById(req.id) : t.completed = TRUE
    /\ (req.op = "UncompleteTodo" /\ target # {}) =>
           /\ res.status = 200
           /\ res.body.todo.completed = FALSE
           /\ TodoById(req.id) # {}
           /\ \A t \in TodoById(req.id) : t.completed = FALSE

\* C6 witness: CompleteTodo on a todo that was completed already responded 200.
C6_Witness ==
    /\ req.op = "CompleteTodo"
    /\ target = {TRUE}
    /\ res.status = 200
    /\ \E t \in TodoById(req.id) : t.completed = TRUE

\* a step that serves UpdateList or DeleteList on list l for a user who does
\* not own it
NonOwnerStep(l) ==
    /\ req'.op \in {"UpdateList", "DeleteList"}
    /\ req'.id = l._id
    /\ l.userId # UserObjectId(req'.user)

\* a list changes or disappears only in an UpdateList / DeleteList of its owner
OnlyOwnerModifies ==
    \A l \in lists :
        l \notin lists' =>
            /\ req'.op \in {"UpdateList", "DeleteList"}
            /\ req'.id = l._id
            /\ l.userId = UserObjectId(req'.user)

\* C7 as stated: UpdateList and DeleteList by a user who is not the list's
\* owner respond 404 and leave the list unchanged; a list is modified or
\* removed only by its owner.
C7_NonOwner404 ==
    [][/\ \A l \in lists : NonOwnerStep(l) => (res'.status = 404 /\ l \in lists')
       /\ OnlyOwnerModifies]_vars

\* C7 amended: such a call never succeeds and leaves the list unchanged: it
\* responds 404, or 400 when UpdateList's form fails validation (which is
\* checked before the store is asked); a list is modified or removed only by
\* its owner.
C7_NonOwnerRefused ==
    [][/\ \A l \in lists :
            NonOwnerStep(l) =>
                /\ l \in lists'
                /\ \/ res'.status = 404
                   \/ /\ res'.status = 400
                      /\ req'.op = "UpdateList"
                      /\ \E f \in DOMAIN res'.body.validations :
                             res'.body.validations[f].error
       /\ OnlyOwnerModifies]_vars

\* C7 witness: UpdateList by a user who does not own the list was answered
\* 404 and the list is still another user's.
C7_Witness ==
    /\ req.op = "UpdateList"
    /\ res.status = 404
    /\ \E l \in lists : l._id = req.id /\ l.userId # UserObjectId(req.user)

\* the tokens in the stored list
StoredTokens == {refreshTokens[k] : k \in 1..Len(refreshTokens)}

\* C8: once the issuances have resolved, the stored list holds every refresh
\* token returned to a caller and every token stored before, also when the
\* issuances' store round-trips interleave.
C8_AppendOnly ==
    (\A i \in Issuers : issuers[i].pc \in {"idle", "resolved"}) =>
        /\ returned \subseteq StoredTokens
        /\ "refresh-0" \in StoredTokens

\* the validations a request's form yields
RequestValidations(r) ==
    IF r.op = "AddTodo"
      THEN AddTodoValidations(AddTodoFormData(r.user, r.body))
      ELSE UpdateTodoValidations(UpdateTodoFormData(r.user, r.id, r.body))

FailedFields(validations) == {f \in DOMAIN validations : validations[f].error}

C11_ReadsScopedPerUser ==
    (req.op = "GetAllTodos" /\ res.status = 200) =>
        \A t \in res.body.todos : t.userId = UserObjectId(req.user)

\* the ids DeleteTodo has answered 200 for: ids are handed out in sequence and
\* only DeleteTodo removes a todo, so these are the ids handed out and gone
DeletedIds == {TodoIdOf(n) : n \in 1..(nextTodo - 1)} \ {t._id : t \in todos}

ByIdHandlers ==
    {"UpdateTodo", "CompleteTodo", "UncompleteTodo", "UpdateTodoPriority",
     "UpdateTodoList", "DeleteTodo"}

\* the request gets past the validation its handler does before the store call
PassesValidation(r) ==
    CASE r.op = "UpdateTodo" ->
             EveryValid(UpdateTodoValidations(UpdateTodoFormData(r.user, r.id, r.body)))
      [] r.op = "UpdateTodoPriority" ->
             /\ ~TodoValidatorId(r.id).error
             /\ ~Falsy(r.priority)
             /\ r.priority \in TodoPriority
      [] r.op = "UpdateTodoList" ->
             /\ ~TodoValidatorId(r.id).error
             /\ ~TodoValidatorListId(r.listId).error
      [] OTHER -> ~TodoValidatorId(r.id).error

\* C12: after DeleteTodo answered 200 for an id, every later UpdateTodo,
\* CompleteTodo, UncompleteTodo, UpdateTodoPriority, UpdateTodoList or
\* DeleteTodo on that id responds 404 and leaves the store unchanged; of two
\* DeleteTodo calls on one existing id exactly one responds 200, the other 404.
C12_DeletedAlways404 ==
    [][/\ (req'.op \in ByIdHandlers /\ req'.id \in DeletedIds) =>
             (res'.status = 404 /\ todos' = todos)
       /\ (req'.op = "DeleteTodo" /\ TodoById(req'.id) # {}) =>
             (res'.status = 200 /\ req'.id \in DeletedIds')]_vars

\* C12, amended: a later request on a deleted id leaves the store unchanged and
\* responds 404 when it passes its handler's validation, 400 when it does not;
\* DeleteTodo responds 200 exactly when the id names a todo, which is gone
\* afterwards, so of two DeleteTodo calls on one existing id the first to
\* reach the store responds 200 and the other 404.
C12_DeletedStaysDeleted ==
    [][/\ (req'.op \in ByIdHandlers /\ req'.id \in DeletedIds) =>
             /\ todos' = todos
             /\ req'.id \in DeletedIds'
             /\ res'.status = (IF PassesValidation(req') THEN 404 ELSE 400)
       /\ (req'.op = "DeleteTodo" /\ PassesValidation(req')) =>
             /\ res'.status = (IF TodoById(req'.id) # {} THEN 200 ELSE 404)
             /\ {t \in todos' : t._id = req'.id} = {}]_vars

\* a second DeleteTodo on an id the first one removed has answered 404
C12_Witness ==
    /\ req.op = "DeleteTodo"
    /\ req.id \in DeletedIds
    /\ target = {}
    /\ res.status = 404
    /\ todos # {}

OwnerlessHandlers ==
    {"CompleteTodo", "UncompleteTodo", "UpdateTodoPriority", "UpdateTodoList", "DeleteTodo"}

\* the todo a 200 response carries has the requested id and is the stored one
\* (for DeleteTodo: the one removed)
RespondsWithTodo(r, s, before, after) ==
    /\ s.status = 200
    /\ s.body.todo._id = r.id
    /\ IF r.op = "DeleteTodo"
         THEN s.body.todo \in before /\ {t \in after : t._id = r.id} = {}
         ELSE s.body.todo \in after

\* C13: for every existing todo and every authenticated user, owner or not,
\* CompleteTodo, UncompleteTodo, UpdateTodoPriority, UpdateTodoList and
\* DeleteTodo on the todo's id respond 200, and a successful UpdateTodo sets
\* the todo's userId to the requesting user.
C13_AnyUserMutates ==
    [][/\ (req'.op \in OwnerlessHandlers /\ TodoById(req'.id) # {}) =>
             res'.status = 200
       /\ (req'.op = "UpdateTodo" /\ res'.status = 200) =>
             res'.body.todo.userId = UserObjectId(req'.user)]_vars

\* C13, amended: for every existing todo and every authenticated user, owner
\* or not, each of those five requests responds 200 with the todo when it
\* passes its handler's validation and 400 when it does not; a successful
\* UpdateTodo stores the requesting user as the todo's userId.
C13_AnyUserMutatesValid ==
    [][/\ (req'.op \in OwnerlessHandlers /\ TodoById(req'.id) # {}) =>
             IF PassesValidation(req')
               THEN RespondsWithTodo(req', res', todos, todos')
               ELSE res'.status = 400 /\ todos' = todos
       /\ (req'.op = "UpdateTodo" /\ res'.status = 200) =>
             /\ RespondsWithTodo(req', res', todos, todos')
             /\ res'.body.todo.userId = UserObjectId(req'.user)]_vars

\* u1, who created the todo, has completed it after u2's UpdateTodo made u2
\* its owner
C13_Witness ==
    /\ req.op = "CompleteTodo"
    /\ req.user = "u1"
    /\ res.status = 200
    /\ res.body.todo.userId = UserObjectId("u2")
====
